---- MODULE Spec2Model ----
(***************************************************************************)
(* A model of pybedtools/__init__.py: the availability probe               *)
(* (check_for_bedtools), the two-tier chromosome-size resolver (chromsizes,*)
(* get_chromsizes_from_ucsc) and the table serialiser (chromsizes_to_file).*)
(*                                                                         *)
(* Python strings whose characters matter (chromosome names, the client's  *)
(* stdout, the lines written to a file) are sequences of one-character     *)
(* strings; identifiers that are only compared for equality (genome names, *)
(* paths, messages) are TLA+ strings.  None is the TLA+ string "None".     *)
(***************************************************************************)
EXTENDS Integers, Sequences, FiniteSets, TLC

VARIABLES
    registry,    \* genome_registry's namespace: attribute name -> value
    held,        \* registry attributes whose dict object the caller holds
    nmut,        \* caller mutations of held dicts so far (bounded)
    TEMPFILES,   \* BedTool.TEMPFILES, the process-wide ledger (a list)
    files,       \* paths that exist on disk
    fout,        \* the file most recently written and closed: name, lines
    returned,    \* history: paths returned by chromsizes_to_file(fn=None)
    probes,      \* processes spawned by check_for_bedtools, in order
    last         \* the most recent call: operation, inputs, outcome

vars == <<registry, held, nmut, TEMPFILES, files, fout, returned, probes, last>>

None == "None"

(***************************************************************************)
(* Bounds of the model.                                                    *)
(***************************************************************************)
MaxTemp == 2        \* temp files created in one run
MaxMutations == 1   \* caller mutations of a returned table in one run
MaxProbes == 2      \* probe processes spawned in one run

(***************************************************************************)
(* Characters and strings.                                                 *)
(***************************************************************************)
Digits == <<"0", "1", "2", "3", "4", "5", "6", "7", "8", "9">>

TAB == "\t"
NL == "\n"

\* ord(c) for the characters the model uses (byte order of Python 2 str).
Ord(c) ==
    CASE c = "\t" -> 9
      [] c = "\n" -> 10
      [] c = " " -> 32
      [] c = "+" -> 43
      [] c = "-" -> 45
      [] c = "0" -> 48
      [] c = "1" -> 49
      [] c = "2" -> 50
      [] c = "3" -> 51
      [] c = "4" -> 52
      [] c = "5" -> 53
      [] c = "6" -> 54
      [] c = "7" -> 55
      [] c = "8" -> 56
      [] c = "9" -> 57
      [] c = "M" -> 77
      [] c = "c" -> 99
      [] c = "e" -> 101
      [] c = "h" -> 104
      [] c = "i" -> 105
      [] c = "m" -> 109
      [] c = "o" -> 111
      [] c = "r" -> 114
      [] c = "s" -> 115
      [] c = "z" -> 122

IsDigit(c) == Ord(c) >= 48 /\ Ord(c) <= 57
IsSpace(c) == c \in {" ", "\t", "\n"}

\* Python's str.__lt__: lexicographic by ord, a proper prefix is smaller.
RECURSIVE StrLess(_, _)
StrLess(a, b) ==
    IF b = <<>> THEN FALSE
    ELSE IF a = <<>> THEN TRUE
    ELSE IF Ord(Head(a)) # Ord(Head(b)) THEN Ord(Head(a)) < Ord(Head(b))
    ELSE StrLess(Tail(a), Tail(b))

\* str(n) for an int n.
RECURSIVE NatToStr(_)
NatToStr(n) ==
    IF n < 10 THEN <<Digits[n + 1]>>
    ELSE NatToStr(n \div 10) \o <<Digits[(n % 10) + 1]>>

IntToStr(n) == IF n < 0 THEN <<"-">> \o NatToStr(0 - n) ELSE NatToStr(n)

\* sorted(keys): ascending by StrLess (keys of a dict are distinct).
RECURSIVE SortedKeys(_)
SortedKeys(S) ==
    IF S = {} THEN <<>>
    ELSE LET m == CHOOSE x \in S : \A y \in S \ {x} : StrLess(x, y)
         IN <<m>> \o SortedKeys(S \ {m})

(***************************************************************************)
(* Chromosome-size tables: chromosome name -> <<start, end>>.              *)
(***************************************************************************)
chr1 == <<"c", "h", "r", "1">>
chr2 == <<"c", "h", "r", "2">>
chr10 == <<"c", "h", "r", "1", "0">>
chr4 == <<"c", "h", "r", "4">>
chrM == <<"c", "h", "r", "M">>

\* Tables a caller builds itself ("you can make a chromsizes dictionary that
\* represents the extent of a tiling array").
ChromNames == {chr1, chr2, chr10}
BoundPairs == {<<1, 100>>, <<1, 50>>}
CallerTables == UNION {[S -> BoundPairs] : S \in SUBSET ChromNames}

EmptyTable == [k \in {} |-> <<1, 1>>]

(***************************************************************************)
(* chromsizes_to_file                                                      *)
(***************************************************************************)
\* tempfile.NamedTemporaryFile(prefix='pybedtools.', suffix='.tmp',
\* delete=False): creates a file that did not exist (O_EXCL); the middle of
\* the name is random.
TempNames == {"pybedtools.q1x7.tmp", "pybedtools.k3w9.tmp", "pybedtools.z5t2.tmp"}
NamedTemporaryFile(existing) == TempNames \ existing

\* Paths a caller names explicitly (fn, saveas).
ExplicitPaths == {"out.chromsizes"}

\* BedTool.TEMPFILES.append(tmpfn)
RegisterTempLost(ledger, tmpfn) == <<tmpfn>>
RegisterTemp(ledger, tmpfn) == Append(ledger, tmpfn)

\* line = chrom + '\t' + str(bounds[1]) + '\n'   (bounds[1]: TLA+ index 2)
FormatLineStart(chrom, bounds) == chrom \o <<TAB>> \o IntToStr(bounds[1]) \o <<NL>>
FormatLine(chrom, bounds) == chrom \o <<TAB>> \o IntToStr(bounds[2]) \o <<NL>>

\* for chrom, bounds in sorted(chromsizes.items()): fout.write(line)
\* (items are (key, value) tuples with distinct keys, so sorted by key)
WrittenLines(chromsizes) ==
    LET keys == SortedKeys(DOMAIN chromsizes)
    IN [i \in 1..Len(keys) |-> FormatLine(keys[i], chromsizes[keys[i]])]

NoValue == [kind |-> "none"]
NoError == [kind |-> "none"]
NoEnv == [errno |-> 0]

ChromsizesToFile(chromsizes, fn) ==
    /\ \/ /\ fn = None
          /\ Len(returned) < MaxTemp
          /\ \E tmpfn \in NamedTemporaryFile(files) :
                /\ TEMPFILES' = RegisterTemp(TEMPFILES, tmpfn)
                /\ files' = files \cup {tmpfn}
                /\ fout' = [name |-> tmpfn, lines |-> WrittenLines(chromsizes)]
                /\ returned' = Append(returned, tmpfn)
                /\ last' = [op |-> "chromsizes_to_file", genome |-> None,
                            arg |-> [table |-> chromsizes, fn |-> fn],
                            env |-> NoEnv, outcome |-> "return",
                            value |-> [kind |-> "path", path |-> tmpfn],
                            error |-> NoError, spawned |-> 0,
                            wrote |-> {tmpfn}, printed |-> <<>>]
       \/ /\ fn # None
          /\ files' = files \cup {fn}
          /\ fout' = [name |-> fn, lines |-> WrittenLines(chromsizes)]
          /\ last' = [op |-> "chromsizes_to_file", genome |-> None,
                      arg |-> [table |-> chromsizes, fn |-> fn],
                      env |-> NoEnv, outcome |-> "return",
                      value |-> [kind |-> "path", path |-> fn],
                      error |-> NoError, spawned |-> 0,
                      wrote |-> {fn}, printed |-> <<>>]
          /\ UNCHANGED <<TEMPFILES, returned>>
    /\ UNCHANGED <<registry, held, nmut, probes>>

(***************************************************************************)
(* The built-in registry: the namespace of the module genome_registry.     *)
(***************************************************************************)
\* The compiled-in tables (chromsizes' docstring shows dm3's rows).
genome_registry_tables ==
    [g \in {"dm3"} |-> (chr4 :> <<1, 1351857>>) @@ (chrM :> <<1, 19517>>)]

\* Every Python module object also carries its own attributes.
ModuleAttrs == [a \in {"__name__"} |-> "pybedtools.genome_registry"]

RegistryGenomes == DOMAIN genome_registry_tables

genome_registry_init ==
    [a \in RegistryGenomes \cup DOMAIN ModuleAttrs |->
        IF a \in RegistryGenomes
        THEN [kind |-> "dict", table |-> genome_registry_tables[a], str |-> ""]
        ELSE [kind |-> "str", table |-> EmptyTable, str |-> ModuleAttrs[a]]]

\* getattr(genome_registry, genome) succeeds; otherwise AttributeError.
HasAttrNever(ns, genome) == FALSE
HasAttr(ns, genome) == genome \in DOMAIN ns

(***************************************************************************)
(* What the remote client's run can be: the Popen call fails with an       *)
(* OSError (errno # 0), or the client runs and ends with some stdout,      *)
(* stderr and exit status.                                                 *)
(***************************************************************************)
\* errno of a missing executable, and the errnos a failed start can carry
\* (13: the file is there but may not be executed).
ENOENT == 2
StartErrnos == {ENOENT, 13}

Header == <<"c", "h", "r", "o", "m", "\t", "s", "i", "z", "e", "\n">>
Row(chrom, size) == chrom \o <<"\t">> \o size \o <<"\n">>

StdoutSamples ==
    { <<>>,
      Header,
      Header \o Row(chr4, <<"1", "3", "5", "1", "8", "5", "7">>)
             \o Row(chrM, <<"1", "9", "5", "1", "7">>),
      Header \o Row(chr1, <<"1", "0", "0">>) \o <<"c", "h", "r", "2", "\n">>,
      Header \o Row(chrM, <<"s", "i", "z", "e">>),
      Row(chr1, <<"5", "0">>) \o Row(chr2, <<" ", "+", "7">>) }

StderrSamples == {"", "ERROR 1049 (42000): Unknown database"}

RunOutcomes ==
    [errno : {0}, stdout : StdoutSamples, stderr : StderrSamples,
     returncode : {0, 1}]
StartFailures ==
    [errno : StartErrnos, stdout : {<<>>}, stderr : {""}, returncode : {0}]
PopenOutcomes == RunOutcomes \cup StartFailures

\* The OSError the operating system raises for errno e.
OSErr(e) ==
    [kind |-> "OSError", errno |-> e,
     message |-> <<IF e = ENOENT THEN "No such file or directory"
                   ELSE "Permission denied">>]

(***************************************************************************)
(* str.splitlines, str.split, int                                          *)
(***************************************************************************)
\* s.splitlines(): the pieces between newlines; no empty piece at the end.
RECURSIVE SplitLinesAcc(_, _)
SplitLinesAcc(s, cur) ==
    IF s = <<>> THEN (IF cur = <<>> THEN <<>> ELSE <<cur>>)
    ELSE IF Head(s) = "\n" THEN <<cur>> \o SplitLinesAcc(Tail(s), <<>>)
    ELSE SplitLinesAcc(Tail(s), Append(cur, Head(s)))
SplitLines(s) == SplitLinesAcc(s, <<>>)

\* line.split(): the maximal runs of non-whitespace characters.
RECURSIVE SplitAcc(_, _)
SplitAcc(s, cur) ==
    IF s = <<>> THEN (IF cur = <<>> THEN <<>> ELSE <<cur>>)
    ELSE IF IsSpace(Head(s))
         THEN (IF cur = <<>> THEN <<>> ELSE <<cur>>) \o SplitAcc(Tail(s), <<>>)
    ELSE SplitAcc(Tail(s), Append(cur, Head(s)))
Split(s) == SplitAcc(s, <<>>)

\* int(tok) for a token without whitespace: an optional sign and digits;
\* anything else raises ValueError.
AllDigits(t) == t # <<>> /\ \A i \in 1..Len(t) : IsDigit(t[i])
IsIntLiteral(t) ==
    \/ AllDigits(t)
    \/ t # <<>> /\ Head(t) \in {"+", "-"} /\ AllDigits(Tail(t))
RECURSIVE DigitsToNat(_)
DigitsToNat(t) ==
    IF t = <<>> THEN 0
    ELSE 10 * DigitsToNat(SubSeq(t, 1, Len(t) - 1)) + (Ord(t[Len(t)]) - 48)
StrToInt(t) ==
    IF Head(t) = "-" THEN 0 - DigitsToNat(Tail(t))
    ELSE IF Head(t) = "+" THEN DigitsToNat(Tail(t))
    ELSE DigitsToNat(t)

\* d[chrom] = value
Put(d, chrom, value) ==
    [k \in DOMAIN d \cup {chrom} |-> IF k = chrom THEN value ELSE d[k]]

\* for line in lines: chrom, size = line.split(); d[chrom] = (1, int(size))
\* ok = FALSE: the unpacking or int() raised ValueError.
RECURSIVE ParseRows(_, _)
ParseRows(lines, d) ==
    IF lines = <<>> THEN [ok |-> TRUE, table |-> d]
    ELSE LET f == Split(Head(lines))
         IN IF Len(f) # 2 \/ ~IsIntLiteral(f[Len(f)])
            THEN [ok |-> FALSE, table |-> d]
            ELSE ParseRows(Tail(lines), Put(d, f[1], <<1, StrToInt(f[2])>>))

\* stdout.splitlines()[1:]
DropHeader(lines) == IF lines = <<>> THEN <<>> ELSE Tail(lines)

(***************************************************************************)
(* subprocess bookkeeping for the probes of check_for_bedtools.            *)
(* A probe is [status, pipes, obj]:                                        *)
(*   status  "running" | "zombie" (exited, not waited on) | "reaped"       *)
(*   pipes   "open" | "closed"   (the parent's ends of stdout and stderr)  *)
(*   obj     "garbage" (the Popen object is unreferenced, not finalised) | *)
(*           "active" (finalised while running: kept in subprocess._active)*)
(*           | "done"                                                      *)
(***************************************************************************)
\* subprocess._cleanup(), which every Popen(...) runs first: poll the
\* processes kept in _active and drop those that have ended.
Cleanup(ps) ==
    [i \in 1..Len(ps) |->
        IF ps[i].obj = "active" /\ ps[i].status = "zombie"
        THEN [ps[i] EXCEPT !.status = "reaped", !.obj = "done"]
        ELSE ps[i]]

(***************************************************************************)
(* get_chromsizes_from_ucsc                                                *)
(***************************************************************************)
Cmds(genome, mysql) ==
    <<mysql, "--user=genome", "--host=genome-mysql.cse.ucsc.edu", "-A", "-e",
      "select chrom, size from " \o genome \o ".chromInfo">>

MysqlMissing ==
    [kind |-> "OSError", errno |-> 0,
     message |-> <<"Can't find mysql -- if you don't have it ",
                   "installed, you'll have to get chromsizes ",
                   " manually, or ",
                   "specify the path with the 'mysql' kwarg.">>]

\* except OSError as err: if err.errno == 2: raise OSError(...) else: raise
HandleStartErrorNoElse(err) == MysqlMissing
HandleStartError(err) == IF err.errno = 2 THEN MysqlMissing ELSE err

\* if stderr: print(stderr); print('Commands were:\n'); print(list2cmdline(cmds))
Printed(stderr, cmds) ==
    IF stderr # "" THEN <<<<stderr>>, <<"Commands were:\n">>, cmds>> ELSE <<>>

\* lines = stdout.splitlines()[1:] and the loop over them, tabulated for
\* the outputs the model draws from.
ParsedStdout ==
    [o \in StdoutSamples |-> ParseRows(DropHeader(SplitLines(o)), EmptyTable)]

\* The body of get_chromsizes_from_ucsc for one outcome of the Popen call.
UcscResult(genome, saveas, mysql, env) ==
    IF env.errno # 0
    THEN [outcome |-> "raise", value |-> NoValue,
          error |-> HandleStartError(OSErr(env.errno)),
          wrote |-> {}, printed |-> <<>>]
    ELSE LET parsed == ParsedStdout[env.stdout]
             out == Printed(env.stderr, Cmds(genome, mysql))
         IN IF ~parsed.ok
            THEN [outcome |-> "raise", value |-> NoValue,
                  error |-> [kind |-> "ValueError", errno |-> 0, message |-> <<>>],
                  wrote |-> {}, printed |-> out]
            ELSE [outcome |-> "return",
                  value |-> [kind |-> "dict", table |-> parsed.table],
                  error |-> NoError,
                  wrote |-> IF saveas # None THEN {saveas} ELSE {},
                  printed |-> out]

\* The effects of one run of get_chromsizes_from_ucsc on the state.
UcscEffects(op, genome, saveas, mysql, env) ==
    LET r == UcscResult(genome, saveas, mysql, env)
    IN /\ probes' = Cleanup(probes)
       /\ IF r.wrote # {}
          THEN /\ files' = files \cup {saveas}
               /\ fout' = [name |-> saveas, lines |-> WrittenLines(r.value.table)]
          ELSE UNCHANGED <<files, fout>>
       /\ last' = [op |-> op, genome |-> genome,
                   arg |-> [saveas |-> saveas, mysql |-> mysql],
                   env |-> env, outcome |-> r.outcome, value |-> r.value,
                   error |-> r.error, spawned |-> 1, wrote |-> r.wrote,
                   printed |-> r.printed]

GetChromsizesFromUcsc(genome, saveas, mysql, env) ==
    /\ UcscEffects("get_chromsizes_from_ucsc", genome, saveas, mysql, env)
    /\ UNCHANGED <<registry, held, nmut, TEMPFILES, returned>>

(***************************************************************************)
(* chromsizes                                                              *)
(***************************************************************************)
\* try: return getattr(genome_registry, genome)
\* except AttributeError: return get_chromsizes_from_ucsc(genome)
Chromsizes(genome, env) ==
    IF HasAttr(registry, genome)
    THEN /\ last' = [op |-> "chromsizes", genome |-> genome,
                     arg |-> [saveas |-> None, mysql |-> None],
                     env |-> NoEnv, outcome |-> "return",
                     value |-> [kind |-> "registry_object", attr |-> genome,
                                content |-> registry[genome]],
                     error |-> NoError, spawned |-> 0, wrote |-> {},
                     printed |-> <<>>]
         /\ held' = IF registry[genome].kind = "dict"
                    THEN held \cup {genome} ELSE held
         /\ UNCHANGED <<registry, nmut, TEMPFILES, files, fout, returned, probes>>
    ELSE /\ UcscEffects("chromsizes", genome, None, "mysql", env)
         /\ UNCHANGED <<registry, held, nmut, TEMPFILES, returned>>

\* A caller changes a dict it got from chromsizes: d[chrom] = bounds.  The
\* dict is the registry's own object, not a copy.
CallerMutate(genome, chrom, bounds) ==
    /\ genome \in held
    /\ nmut < MaxMutations
    /\ registry' = [registry EXCEPT ![genome].table = Put(@, chrom, bounds)]
    /\ nmut' = nmut + 1
    /\ UNCHANGED <<held, TEMPFILES, files, fout, returned, probes, last>>

(***************************************************************************)
(* check_for_bedtools                                                      *)
(***************************************************************************)
BedtoolsMissing ==
    [kind |-> "OSError", errno |-> 0,
     message |-> <<"Please make sure you have installed BEDTools",
                   "(https://github.com/arq5x/bedtools) and that ",
                   "it's on the path.">>]

\* except OSError as err: if err.errno == 2: raise OSError(...)
\* (no else branch: the function then ends and returns None)
CheckHandler(err) ==
    IF err.errno = 2
    THEN [outcome |-> "raise", error |-> BedtoolsMissing]
    ELSE [outcome |-> "return", error |-> NoError]

CheckForBedtools(program_to_check, env) ==
    /\ env.errno = 0 => Len(probes) < MaxProbes
    /\ probes' = IF env.errno = 0
                 THEN Append(Cleanup(probes),
                             [status |-> "running", pipes |-> "open",
                              obj |-> "garbage"])
                 ELSE Cleanup(probes)
    /\ LET r == IF env.errno = 0
                THEN [outcome |-> "return", error |-> NoError]
                ELSE CheckHandler(OSErr(env.errno))
       IN last' = [op |-> "check_for_bedtools", genome |-> None,
                   arg |-> [program |-> program_to_check],
                   env |-> env, outcome |-> r.outcome, value |-> NoValue,
                   error |-> r.error,
                   spawned |-> 1, wrote |-> {}, printed |-> <<>>]
    /\ UNCHANGED <<registry, held, nmut, TEMPFILES, files, fout, returned>>

\* The probe's Popen object p is never used again: when the interpreter
\* finalises it, its pipe files are closed and Popen.__del__ polls the
\* child, reaping it if it has ended and else keeping it in _active.
PopenDel(i) ==
    /\ i \in 1..Len(probes)
    /\ probes[i].obj = "garbage"
    /\ probes' = [probes EXCEPT ![i] =
                    IF @.status = "zombie"
                    THEN [status |-> "reaped", pipes |-> "closed", obj |-> "done"]
                    ELSE [status |-> "running", pipes |-> "closed", obj |-> "active"]]
    /\ UNCHANGED <<registry, held, nmut, TEMPFILES, files, fout, returned, last>>

\* The probed program ends (it was started with no arguments).
ChildExit(i) ==
    /\ i \in 1..Len(probes)
    /\ probes[i].status = "running"
    /\ probes' = [probes EXCEPT ![i].status = "zombie"]
    /\ UNCHANGED <<registry, held, nmut, TEMPFILES, files, fout, returned, last>>

(***************************************************************************)
(* Specifications.  The three groups of operations share no state that a   *)
(* claim about one of them reads from another, so each group is explored   *)
(* under its own next-state relation.                                      *)
(***************************************************************************)
Range(q) == {q[i] : i \in 1..Len(q)}

Init ==
    /\ registry = genome_registry_init
    /\ held = {}
    /\ nmut = 0
    /\ TEMPFILES = <<>>
    /\ files = {}
    /\ fout = [name |-> None, lines |-> <<>>]
    /\ returned = <<>>
    /\ probes = <<>>
    /\ last = [op |-> "import", genome |-> None, arg |-> [fn |-> None],
               env |-> NoEnv, outcome |-> "return", value |-> NoValue,
               error |-> NoError, spawned |-> 0, wrote |-> {}, printed |-> <<>>]

Genomes == {"dm3", "hg19", "__name__"}
Programs == {"intersectBed", "mergeBed"}
ProbeOutcomes == {e \in PopenOutcomes : e.errno # 0}
                    \cup {[errno |-> 0, stdout |-> <<>>, stderr |-> "", returncode |-> 0]}

FileNext ==
    \E chromsizes \in CallerTables,
       fn \in {None} \cup ExplicitPaths \cup Range(returned) :
        ChromsizesToFile(chromsizes, fn)

ResolverNext ==
    \/ \E genome \in Genomes, env \in PopenOutcomes : Chromsizes(genome, env)
    \/ \E genome \in Genomes, saveas \in {None} \cup ExplicitPaths,
          env \in PopenOutcomes :
            GetChromsizesFromUcsc(genome, saveas, "mysql", env)
    \/ \E genome \in RegistryGenomes, chrom \in {chr4, chr1},
          bounds \in {<<1, 5>>} :
            CallerMutate(genome, chrom, bounds)

ProbeNext ==
    \/ \E program \in Programs, env \in ProbeOutcomes :
            CheckForBedtools(program, env)
    \/ \E i \in 1..MaxProbes : PopenDel(i)
    \/ \E i \in 1..MaxProbes : ChildExit(i)

FileSpec == Init /\ [][FileNext]_vars
ResolverSpec == Init /\ [][ResolverNext]_vars
ProbeSpec == Init /\ [][ProbeNext]_vars

LiveSpec ==
    /\ Init /\ [][ProbeNext]_vars
    /\ WF_vars(\E i \in 1..MaxProbes : PopenDel(i))
    /\ WF_vars(\E i \in 1..MaxProbes : ChildExit(i))

(***************************************************************************)
(* Properties                                                              *)
(***************************************************************************)
IsPrefix(a, b) == Len(a) <= Len(b) /\ SubSeq(b, 1, Len(a)) = a
Distinct(q) == \A i, j \in 1..Len(q) : i # j => q[i] # q[j]

\* C1: chromsizes(genome) for a genome of the built-in registry returns the
\* registry's own table for that identifier and makes no Popen call.
C1_RegistryHitNoProcess ==
    (last.op = "chromsizes" /\ last.genome \in RegistryGenomes) =>
        /\ last.outcome = "return"
        /\ last.spawned = 0
        /\ last.value.kind = "registry_object"
        /\ last.value.attr = last.genome
        /\ last.value.content.kind = "dict"

C1_Witness ==
    /\ last.op = "chromsizes"
    /\ last.genome = "dm3"
    /\ last.spawned = 0
    /\ last.value.kind = "registry_object"
    /\ last.value.content.table[chr4] = <<1, 1351857>>

\* C2: chromsizes(genome) for an identifier that is not a genome table of
\* the registry makes exactly one Popen call.
C2_NonTableOneInvocation ==
    (last.op = "chromsizes" /\ last.genome \notin RegistryGenomes) =>
        last.spawned = 1

\* A line of the client's output that parses as a (chromosome, size) row.
ParseableRow(line) ==
    Len(Split(line)) = 2 /\ IsIntLiteral(Split(line)[2])
ZeroParseableRows(stdout) ==
    LET lines == SplitLines(stdout)
    IN \A i \in 2..Len(lines) : ~ParseableRow(lines[i])

\* C3: when the genome is not in the registry and the client's output has
\* no parseable row after the header, chromsizes ends in a lookup error;
\* it does not return an empty table.
C3_ZeroRowsIsLookupError ==
    (/\ last.op = "chromsizes"
     /\ last.spawned = 1
     /\ last.env.errno = 0
     /\ ZeroParseableRows(last.env.stdout)) =>
        /\ last.outcome = "raise"
        /\ last.error.kind = "LookupError"

\* C4: when the client runs and exits with a non-zero status,
\* get_chromsizes_from_ucsc ends in an execution error and returns no table.
C4_NonZeroExitIsExecutionError ==
    (/\ last.op = "get_chromsizes_from_ucsc"
     /\ last.env.errno = 0
     /\ last.env.returncode # 0) =>
        /\ last.outcome = "raise"
        /\ last.error.kind = "ExecutionError"

\* C5: in check_for_bedtools a start failure with an errno other than 2
\* propagates as the original error; the check does not return normally.
C5_OtherStartErrorPropagates ==
    (last.op = "check_for_bedtools" /\ last.env.errno \notin {0, 2}) =>
        /\ last.outcome = "raise"
        /\ last.error = OSErr(last.env.errno)

\* C6: in get_chromsizes_from_ucsc a start failure with errno 2 becomes the
\* error whose message names mysql and the 'mysql' path argument, any other
\* start failure is re-raised unchanged, and in neither case is a table
\* returned or a file written.
C6_StartFailureClassified ==
    (last.op = "get_chromsizes_from_ucsc" /\ last.env.errno # 0) =>
        /\ last.outcome = "raise"
        /\ last.value.kind = "none"
        /\ last.wrote = {}
        /\ last.error.kind = "OSError"
        /\ last.env.errno = 2 =>
              /\ last.error.message[1] = "Can't find mysql -- if you don't have it "
              /\ last.error.message[4] = "specify the path with the 'mysql' kwarg."
        /\ last.env.errno # 2 =>
              /\ last.error.errno = last.env.errno
              /\ last.error.message = <<"Permission denied">>

C6_Witness ==
    /\ last.op = "get_chromsizes_from_ucsc"
    /\ last.env.errno = 13
    /\ last.arg.saveas # None
    /\ last.outcome = "raise"
    /\ last.error.errno = 13
    /\ files = {}

\* C7: the paths returned by calls chromsizes_to_file(chromsizes, fn=None)
\* are pairwise distinct, each is in BedTool.TEMPFILES, and no call removes
\* or replaces an entry the ledger already held.
C7_TempPathsDistinctRegistered ==
    [][/\ Distinct(returned')
       /\ Range(returned') \subseteq Range(TEMPFILES')
       /\ IsPrefix(TEMPFILES, TEMPFILES')]_vars

C7_Witness ==
    /\ last.op = "chromsizes_to_file"
    /\ last.arg.fn = None
    /\ Len(returned) >= 2
    /\ returned[1] # returned[2]
    /\ {returned[1], returned[2]} \subseteq Range(TEMPFILES)

\* The pieces of a written line: name, TAB, size, NL.
TabAt(line) == CHOOSE i \in 1..Len(line) : line[i] = TAB
NameOf(line) == SubSeq(line, 1, TabAt(line) - 1)
SizeOf(line) == SubSeq(line, TabAt(line) + 1, Len(line) - 1)
WellFormedLine(line) ==
    /\ Cardinality({i \in 1..Len(line) : line[i] = TAB}) = 1
    /\ Cardinality({i \in 1..Len(line) : line[i] = NL}) = 1
    /\ line[Len(line)] = NL

\* C8: chromsizes_to_file writes one line per chromosome, each the name, a
\* tab, the end coordinate in decimal and a newline, in ascending order of
\* name, with no other line.
C8_FileFormat ==
    last.op = "chromsizes_to_file" =>
        LET t == last.arg.table
            L == fout.lines
        IN /\ fout.name = last.value.path
           /\ Len(L) = Cardinality(DOMAIN t)
           /\ \A i \in 1..Len(L) :
                 /\ WellFormedLine(L[i])
                 /\ NameOf(L[i]) \in DOMAIN t
                 /\ AllDigits(SizeOf(L[i]))
                 /\ DigitsToNat(SizeOf(L[i])) = t[NameOf(L[i])][2]
           /\ \A i, j \in 1..Len(L) :
                 i < j => StrLess(NameOf(L[i]), NameOf(L[j]))

C8_Witness ==
    /\ last.op = "chromsizes_to_file"
    /\ last.arg.table = (chr1 :> <<1, 100>>) @@ (chr2 :> <<1, 50>>)
    /\ fout.lines = << <<"c", "h", "r", "1", "\t", "1", "0", "0", "\n">>,
                       <<"c", "h", "r", "2", "\t", "5", "0", "\n">> >>

\* C9: every call chromsizes(genome) for a built-in genome returns the
\* content the compiled-in registry originally held, whatever callers did
\* to tables returned earlier.
C9_ReturnedTableIsOriginal ==
    (last.op = "chromsizes" /\ last.genome \in RegistryGenomes) =>
        last.value.content.table = genome_registry_tables[last.genome]

\* C10: every process check_for_bedtools spawns is eventually waited on
\* (reaped) and its pipes are closed.
C10_ProbesEventuallyReaped ==
    \A i \in 1..MaxProbes :
        (Len(probes) >= i) ~>
            (/\ Len(probes) >= i
             /\ probes[i].status = "reaped"
             /\ probes[i].pipes = "closed")

====
